---- MODULE Spec2Model ----
(***************************************************************************)
(* Model of skills/webgpu-threejs-tsl/scripts/batch-rename-models.py: a    *)
(* linear script that loads a JSON asset catalog, rewrites the model       *)
(* assets named in a fixed rename table, writes the result to a second     *)
(* file and prints how to apply it.                                        *)
(*                                                                         *)
(* Representation.                                                         *)
(*   - A Python str is the sequence of its '/'-separated segments (what    *)
(*     str.split('/') returns); "a/b" is <<"a", "b">>, "a" is <<"a">>.     *)
(*   - A Python value is a record [t, s, n, e]: t its type tag, s the      *)
(*     segments of a str, n the value of an int, e the elements of a list  *)
(*     or the (key, value) pairs of a dict in insertion order.             *)
(*   - A file is [exists, toks]: toks is its text as a sequence of JSON    *)
(*     tokens (whitespace, hence indent=2, is below this granularity).     *)
(*   - A path is the sequence of its components.                           *)
(***************************************************************************)
EXTENDS Integers, Sequences, FiniteSets, TLC

VARIABLES
    pc,       \* the statement about to run, or "done" / "fault"
    fs,       \* the file system: path -> file
    catalog,  \* the variable catalog (None before the load)
    idx,      \* position of the for loop's iterator in catalog['assets']
    stdout,   \* the lines printed so far
    fault     \* the uncaught exception and the line that raised it

vars == <<pc, fs, catalog, idx, stdout, fault>>

(* Bounds of the model. *)
MaxAssets == 2
MaxPartial == 2

----------------------------------------------------------------------------
(* Python values *)

PyVal(t, s, n, e) == [t |-> t, s |-> s, n |-> n, e |-> e]
PyStr(segs) == PyVal("str", segs, 0, <<>>)
PyInt(n) == PyVal("int", <<>>, n, <<>>)
PyInf == PyVal("inf", <<>>, 0, <<>>)
PyNone == PyVal("None", <<>>, 0, <<>>)
PyList(elems) == PyVal("list", <<>>, 0, elems)
PyDict(pairs) == PyVal("dict", <<>>, 0, pairs)
KV(k, v) == [k |-> k, v |-> v]

Last(seq) == seq[Len(seq)]

(* The one element of a singleton.  { e(x) : x \in {v} } binds x to the
   value of v, computed once. *)
The(S) == CHOOSE x \in S : TRUE

(* key in d *)
DictHas(d, k) == \E j \in DOMAIN d.e : d.e[j].k = k
(* d[key] *)
DictGet(d, k) == d.e[CHOOSE j \in DOMAIN d.e : d.e[j].k = k].v
(* d[key] = v : in place when the key exists, appended otherwise *)
DictSet(d, k, v) ==
    The({ IF \E j \in DOMAIN pairs : pairs[j].k = k
          THEN PyDict([j \in DOMAIN pairs |->
                         IF pairs[j].k = k THEN KV(k, v) ELSE pairs[j]])
          ELSE PyDict(Append(pairs, KV(k, v))) : pairs \in {d.e} })

----------------------------------------------------------------------------
(* JSON text: json.dump and json.load of the standard library *)

Tok(k, s, n) == [k |-> k, s |-> s, n |-> n]
Punct(k) == Tok(k, <<>>, 0)

(* Tokens outside the JSON grammar that Python writes and reads back. *)
NonStandardTokens == {"Infinity"}

RECURSIVE Dump(_), DumpElems(_, _), DumpMembers(_, _)
(* json.dump(obj, f, indent=2), allow_nan left at its default True: the
   text of obj.  A non-finite float is written as the bare word Infinity. *)
Dump(v) ==
    CASE v.t = "str" -> <<Tok("str", v.s, 0)>>
      [] v.t = "int" -> <<Tok("num", <<>>, v.n)>>
      [] v.t = "inf" -> <<Punct("Infinity")>>
      [] v.t = "None" -> <<Punct("null")>>
      [] v.t = "list" -> <<Punct("[")>> \o DumpElems(v.e, 1) \o <<Punct("]")>>
      [] v.t = "dict" -> <<Punct("{")>> \o DumpMembers(v.e, 1) \o <<Punct("}")>>
DumpElems(elems, j) ==
    IF j > Len(elems) THEN <<>>
    ELSE (IF j > 1 THEN <<Punct(",")>> ELSE <<>>)
         \o Dump(elems[j]) \o DumpElems(elems, j + 1)
DumpMembers(pairs, j) ==
    IF j > Len(pairs) THEN <<>>
    ELSE (IF j > 1 THEN <<Punct(",")>> ELSE <<>>)
         \o <<Tok("str", pairs[j].k, 0), Punct(":")>>
         \o Dump(pairs[j].v) \o DumpMembers(pairs, j + 1)

(* Result of a parse: ok, the value, the position after it. *)
Good(v, p) == [ok |-> TRUE, v |-> v, p |-> p]
Bad == [ok |-> FALSE, v |-> PyNone, p |-> 0]

RECURSIVE ParseValue(_, _), ParseElems(_, _, _), ParseMembers(_, _, _)
(* json.load's decoder: one value starting at token p.  A float literal
   beyond the double range ("big", e.g. 1e400) and the word Infinity both
   decode to float inf. *)
ParseValue(ts, p) ==
    IF p > Len(ts) THEN Bad
    ELSE CASE ts[p].k = "str" -> Good(PyStr(ts[p].s), p + 1)
           [] ts[p].k = "num" -> Good(PyInt(ts[p].n), p + 1)
           [] ts[p].k = "big" -> Good(PyInf, p + 1)
           [] ts[p].k = "Infinity" -> Good(PyInf, p + 1)
           [] ts[p].k = "null" -> Good(PyNone, p + 1)
           [] ts[p].k = "[" ->
                IF p + 1 <= Len(ts) /\ ts[p + 1].k = "]"
                THEN Good(PyList(<<>>), p + 2)
                ELSE ParseElems(ts, p + 1, <<>>)
           [] ts[p].k = "{" ->
                IF p + 1 <= Len(ts) /\ ts[p + 1].k = "}"
                THEN Good(PyDict(<<>>), p + 2)
                ELSE ParseMembers(ts, p + 1, PyDict(<<>>))
           [] OTHER -> Bad
ParseElems(ts, p, acc) ==
    The({ IF ~r.ok \/ r.p > Len(ts) THEN Bad
          ELSE IF ts[r.p].k = "," THEN ParseElems(ts, r.p + 1, Append(acc, r.v))
          ELSE IF ts[r.p].k = "]" THEN Good(PyList(Append(acc, r.v)), r.p + 1)
          ELSE Bad : r \in {ParseValue(ts, p)} })
ParseMembers(ts, p, acc) ==
    IF p + 1 > Len(ts) \/ ts[p].k # "str" \/ ts[p + 1].k # ":" THEN Bad
    ELSE The({ IF ~r.ok \/ r.p > Len(ts) THEN Bad
               ELSE IF ts[r.p].k = ","
                    THEN ParseMembers(ts, r.p + 1, DictSet(acc, ts[p].s, r.v))
               ELSE IF ts[r.p].k = "}"
                    THEN Good(DictSet(acc, ts[p].s, r.v), r.p + 1)
               ELSE Bad : r \in {ParseValue(ts, p + 2)} })

(* json.load(f): the whole text must be one value (else JSONDecodeError). *)
Load(ts) ==
    The({ IF r.ok /\ r.p = Len(ts) + 1 THEN r ELSE Bad : r \in {ParseValue(ts, 1)} })

(* The text is JSON in the strict sense: it parses and uses no word that
   only Python's dialect knows. *)
ValidJSON(ts) ==
    /\ Load(ts).ok
    /\ \A j \in DOMAIN ts : ts[j].k \notin NonStandardTokens

----------------------------------------------------------------------------
(* Paths *)

Home == <<"home", "user">>

(* os.path.expanduser: a leading "~" becomes the home directory. *)
expanduser(path) ==
    IF Len(path) > 0 /\ Head(path) = "~" THEN Home \o Tail(path) ELSE path

catalog_path ==
    expanduser(<<"~", ".claude", "asset-packs", "webgpu-threejs-tsl", "packs",
                 "downloads-pack", "downloads.catalog.json">>)

(* The result written over the catalog itself. *)
output_path_in_place ==
    expanduser(<<"~", ".claude", "asset-packs", "webgpu-threejs-tsl", "packs",
                 "downloads-pack", "downloads.catalog.json">>)

output_path == expanduser(<<"~", "Downloads", "downloads-renamed.catalog.json">>)

----------------------------------------------------------------------------
(* The rename table *)

Entry(name, label, description, tags) ==
    [name |-> name, label |-> label, description |-> description, tags |-> tags]

rename_table ==
    ("standard-model-1" :> Entry("decorative-object-1", "Decorative Object 1",
        "3D decorative object for scenes (7.6M, medium-poly)",
        <<"decorative", "prop", "medium-poly", "indoor">>))
 @@ ("detailed-model-2" :> Entry("detailed-prop-1", "Detailed Prop 1",
        "High-detail prop model (9.7M, high-poly)",
        <<"prop", "detailed", "high-poly", "decorative">>))
 @@ ("simple-model-3" :> Entry("simple-prop-1", "Simple Prop 1",
        "Simple prop for background (4.7M, low-poly)",
        <<"prop", "simple", "low-poly", "background">>))
 @@ ("detailed-model-4" :> Entry("detailed-prop-2", "Detailed Prop 2",
        "High-detail prop model (13M, high-poly)",
        <<"prop", "detailed", "high-poly", "decorative">>))
 @@ ("standard-model-5" :> Entry("standard-prop-1", "Standard Prop 1",
        "Standard prop model (5.2M, medium-poly)",
        <<"prop", "standard", "medium-poly">>))
 @@ ("standard-model-6" :> Entry("standard-prop-2", "Standard Prop 2",
        "Standard prop model (5.5M, medium-poly)",
        <<"prop", "standard", "medium-poly">>))
 @@ ("detailed-model-7" :> Entry("detailed-prop-3", "Detailed Prop 3",
        "High-detail prop model (11M, high-poly)",
        <<"prop", "detailed", "high-poly">>))
 @@ ("standard-model-8" :> Entry("standard-prop-3", "Standard Prop 3",
        "Standard prop model (6.8M, medium-poly)",
        <<"prop", "standard", "medium-poly">>))
 @@ ("standard-model-9" :> Entry("standard-prop-4", "Standard Prop 4",
        "Standard prop model (9.0M, medium-poly)",
        <<"prop", "standard", "medium-poly">>))
 @@ ("detailed-model-11" :> Entry("detailed-prop-4", "Detailed Prop 4",
        "High-detail prop model (9.7M, high-poly)",
        <<"prop", "detailed", "high-poly">>))
 @@ ("standard-model-12" :> Entry("standard-prop-5", "Standard Prop 5",
        "Standard prop model (7.3M, medium-poly)",
        <<"prop", "standard", "medium-poly">>))
 @@ ("detailed-model-13" :> Entry("chinese-dragon", "Chinese Dragon",
        "Oriental dragon with detailed scales and traditional design (12M, high-poly)",
        <<"dragon", "fantasy", "creature", "high-poly", "hero-asset", "oriental">>))
 @@ ("detailed-model-14" :> Entry("detailed-prop-5", "Detailed Prop 5",
        "High-detail prop model (10M, high-poly)",
        <<"prop", "detailed", "high-poly">>))

(* A table whose first row renames to a name that is itself a key. *)
renames_chained ==
    [rename_table EXCEPT !["standard-model-1"].name = "standard-model-5"]

(* A table in which two keys share one new name. *)
renames_shared ==
    [rename_table EXCEPT !["detailed-model-13"].name = "decorative-object-1"]

renames == rename_table

----------------------------------------------------------------------------
(* The update of one asset: the body of the for loop *)

NoFault == [exc |-> "", line |-> 0]
Raise(exc, line) == [exc |-> exc, line |-> line]

(* A line of standard output. *)
Line(k, a, b, sfx) == [k |-> k, a |-> a, b |-> b, sfx |-> sfx]
ProgressLine(old_id, name) == Line("progress", <<old_id>>, <<name>>, "")

Outcome(f, asset, out) == [fault |-> f, asset |-> asset, out |-> out]

TagList(tags) == PyList([j \in DOMAIN tags |-> PyStr(<<tags[j]>>)])

(* The matched asset replaced by a fresh record of the four fields. *)
Rewrite_fresh(asset, rename_data) ==
    PyDict(<<KV(<<"id">>, PyStr(<<"downloads-pack", rename_data.name>>)),
             KV(<<"label">>, PyStr(<<rename_data.label>>)),
             KV(<<"description">>, PyStr(<<rename_data.description>>)),
             KV(<<"tags">>, TagList(rename_data.tags))>>)

(* The four assignments to a matched asset. *)
Rewrite(asset, rename_data) ==
    LET new_id == PyStr(<<"downloads-pack", rename_data.name>>)
        a1 == DictSet(asset, <<"id">>, new_id)
        a2 == DictSet(a1, <<"label">>, PyStr(<<rename_data.label>>))
        a3 == DictSet(a2, <<"description">>, PyStr(<<rename_data.description>>))
    IN  DictSet(a3, <<"tags">>, TagList(rename_data.tags))

(* The loop body looking the whole id up (no split), so that only an id
   without prefix matches. *)
UpdateAsset_whole_id(asset) ==
    IF asset.t # "dict" THEN Outcome(Raise("TypeError", 100), asset, <<>>)
    ELSE IF ~DictHas(asset, <<"type">>)
    THEN Outcome(Raise("KeyError", 100), asset, <<>>)
    ELSE IF DictGet(asset, <<"type">>) # PyStr(<<"model">>)
    THEN Outcome(NoFault, asset, <<>>)
    ELSE IF ~DictHas(asset, <<"id">>)
    THEN Outcome(Raise("KeyError", 101), asset, <<>>)
    ELSE IF DictGet(asset, <<"id">>).t # "str"
    THEN Outcome(Raise("AttributeError", 101), asset, <<>>)
    ELSE LET id == DictGet(asset, <<"id">>).s IN
         IF Len(id) # 1 \/ Head(id) \notin DOMAIN rename_table
         THEN Outcome(NoFault, asset, <<>>)
         ELSE Outcome(NoFault, Rewrite(asset, rename_table[Head(id)]),
                      <<ProgressLine(Head(id), rename_table[Head(id)].name)>>)

(* The loop body without the test of the asset's type. *)
UpdateAsset_any_type(asset) ==
    IF asset.t # "dict" THEN Outcome(Raise("TypeError", 100), asset, <<>>)
    ELSE IF ~DictHas(asset, <<"type">>)
    THEN Outcome(Raise("KeyError", 100), asset, <<>>)
    ELSE IF ~DictHas(asset, <<"id">>)
    THEN Outcome(Raise("KeyError", 101), asset, <<>>)
    ELSE IF DictGet(asset, <<"id">>).t # "str"
    THEN Outcome(Raise("AttributeError", 101), asset, <<>>)
    ELSE LET old_id == Last(DictGet(asset, <<"id">>).s) IN
         IF old_id \notin DOMAIN rename_table
         THEN Outcome(NoFault, asset, <<>>)
         ELSE Outcome(NoFault, Rewrite(asset, rename_table[old_id]),
                      <<ProgressLine(old_id, rename_table[old_id].name)>>)

(* One iteration: the fault it raises, the asset afterwards, the lines
   it prints. *)
UpdateAsset(asset) ==
    IF asset.t # "dict" THEN Outcome(Raise("TypeError", 100), asset, <<>>)
    ELSE IF ~DictHas(asset, <<"type">>)
    THEN Outcome(Raise("KeyError", 100), asset, <<>>)
    ELSE IF DictGet(asset, <<"type">>) # PyStr(<<"model">>)
    THEN Outcome(NoFault, asset, <<>>)
    ELSE IF ~DictHas(asset, <<"id">>)
    THEN Outcome(Raise("KeyError", 101), asset, <<>>)
    ELSE IF DictGet(asset, <<"id">>).t # "str"
    THEN Outcome(Raise("AttributeError", 101), asset, <<>>)
    ELSE LET old_id == Last(DictGet(asset, <<"id">>).s) IN
         IF old_id \notin DOMAIN renames
         THEN Outcome(NoFault, asset, <<>>)
         ELSE Outcome(NoFault, Rewrite(asset, renames[old_id]),
                      <<ProgressLine(old_id, renames[old_id].name)>>)

----------------------------------------------------------------------------
(* Input catalogs and files the script may meet *)

File(ts) == [exists |-> TRUE, toks |-> ts]
Absent == [exists |-> FALSE, toks |-> <<>>]

MkAsset(id, type) ==
    PyDict(<<KV(<<"id">>, id), KV(<<"type">>, PyStr(<<type>>)),
             KV(<<"label">>, PyStr(<<"Model">>)),
             KV(<<"description">>, PyStr(<<"imported", "unsorted">>)),
             KV(<<"tags">>, PyList(<<PyStr(<<"model">>)>>)),
             KV(<<"path">>, PyStr(<<"models", "m.glb">>))>>)

(* Assets that exercise every branch of the loop body. *)
CorePool ==
    { MkAsset(PyStr(<<"downloads-pack", "standard-model-1">>), "model"),
      MkAsset(PyStr(<<"downloads-pack", "detailed-model-13">>), "model"),
      MkAsset(PyStr(<<"legacy", "packs", "standard-model-1">>), "model"),
      MkAsset(PyStr(<<"detailed-model-2">>), "model"),
      MkAsset(PyStr(<<"downloads-pack", "standard-model-1">>), "texture"),
      MkAsset(PyStr(<<"downloads-pack", "oak-tree">>), "model"),
      MkAsset(PyStr(<<"downloads-pack", "decorative-object-1">>), "model"),
      MkAsset(PyInt(7), "model"),
      PyDict(<<KV(<<"id">>, PyStr(<<"downloads-pack", "simple-model-3">>)),
               KV(<<"type">>, PyStr(<<"model">>))>>),
      PyDict(<<KV(<<"type">>, PyStr(<<"model">>)),
               KV(<<"label">>, PyStr(<<"Model">>))>>),
      PyDict(<<KV(<<"id">>, PyStr(<<"downloads-pack", "standard-model-5">>)),
               KV(<<"label">>, PyStr(<<"Model">>))>>) }

(* A model asset for every key of the table, under the pack's prefix. *)
KeyPool == {MkAsset(PyStr(<<"downloads-pack", k>>), "model") : k \in DOMAIN renames}

(* Lists of at most MaxAssets assets: the first from the core pool or from
   `first', the others from the core pool. *)
ListsFrom(first) ==
    UNION {{a \in [1..n -> CorePool \cup first] :
              \A j \in 2..n : a[j] \in CorePool} : n \in 0..MaxAssets}

MkCatalog(list, extra) ==
    PyDict(<<KV(<<"packId">>, PyStr(<<"downloads-pack">>)),
             KV(<<"assets">>, PyList(list))>> \o extra)

(* The shorter lists also come with a further top-level key whose value is
   a non-finite float. *)
Shorter(lists) == {a \in lists : Len(a) < MaxAssets}
Scaled == <<KV(<<"unitScale">>, PyInf)>>

(* Catalogs that fault at line 99: no assets key, not an object. *)
OddCatalogs == {PyDict(<<KV(<<"packId">>, PyStr(<<"downloads-pack">>))>>), PyList(<<>>)}

(* A non-finite float spelled as an overflowing literal (1e400), which is
   JSON in the strict sense and decodes to the same float as Infinity. *)
Overflowing(ts) ==
    [j \in DOMAIN ts |-> IF ts[j].k = "Infinity" THEN Punct("big") ELSE ts[j]]

(* The texts that json.load decodes to catalog c. *)
InputTexts(c) == {Dump(c), Overflowing(Dump(c))}

MalformedTexts == {<<>>, <<Punct("{")>>, <<Punct("[")>> \o <<Punct("]"), Punct("]")>>}

OutputFiles == {Absent, File(<<Tok("str", <<"stale">>, 0)>>)}

----------------------------------------------------------------------------
(* The script *)

(* The state before line 13, for the given input lists and the given
   earlier contents of the output file. *)
Start(lists, outs) ==
    /\ pc = "load"
    /\ \E o \in outs :
         \/ fs = (catalog_path :> Absent) @@ (output_path :> o)
         \/ \E ts \in MalformedTexts :
              fs = (catalog_path :> File(ts)) @@ (output_path :> o)
         \/ \E c \in OddCatalogs :
              fs = (catalog_path :> File(Dump(c))) @@ (output_path :> o)
         \/ \E list \in lists :
              fs = (catalog_path :> File(Dump(MkCatalog(list, <<>>))))
                   @@ (output_path :> o)
         \/ \E list \in Shorter(lists) :
              \E ts \in InputTexts(MkCatalog(list, Scaled)) :
                fs = (catalog_path :> File(ts)) @@ (output_path :> o)
    /\ catalog = PyNone
    /\ idx = 0
    /\ stdout = <<>>
    /\ fault = NoFault

Init == Start(ListsFrom(KeyPool), OutputFiles)

(* The runs whose termination is checked: the lists over the core pool,
   no output file yet. *)
FairInit == Start(ListsFrom({}), {Absent})

assets == DictGet(catalog, <<"assets">>).e

(* line 13: open(catalog_path, 'r') on a missing file *)
LoadMissing ==
    /\ pc = "load"
    /\ ~fs[catalog_path].exists
    /\ pc' = "fault"
    /\ fault' = Raise("FileNotFoundError", 13)
    /\ UNCHANGED <<fs, catalog, idx, stdout>>

(* line 14: json.load on text that is not JSON *)
LoadMalformed ==
    /\ pc = "load"
    /\ fs[catalog_path].exists
    /\ ~Load(fs[catalog_path].toks).ok
    /\ pc' = "fault"
    /\ fault' = Raise("JSONDecodeError", 14)
    /\ UNCHANGED <<fs, catalog, idx, stdout>>

(* lines 13-14: the catalog is loaded *)
LoadOk ==
    /\ pc = "load"
    /\ fs[catalog_path].exists
    /\ \E r \in {Load(fs[catalog_path].toks)} :
         r.ok /\ catalog' = r.v
    /\ pc' = "for"
    /\ UNCHANGED <<fs, idx, stdout, fault>>

(* The loop entered inside the with block of the output file, so that the
   output is opened (created or truncated) before any asset is seen. *)
ForAssets_opens_first ==
    /\ pc = "for"
    /\ IF catalog.t # "dict"
       THEN pc' = "fault" /\ fault' = Raise("TypeError", 99) /\ idx' = idx
       ELSE IF ~DictHas(catalog, <<"assets">>)
       THEN pc' = "fault" /\ fault' = Raise("KeyError", 99) /\ idx' = idx
       ELSE pc' = "loop" /\ idx' = 1 /\ fault' = fault
    /\ fs' = [fs EXCEPT ![output_path] = File(<<>>)]
    /\ UNCHANGED <<catalog, stdout>>

(* line 99: catalog['assets'] is looked up and its iteration starts *)
ForAssets ==
    /\ pc = "for"
    /\ IF catalog.t # "dict"
       THEN pc' = "fault" /\ fault' = Raise("TypeError", 99) /\ idx' = idx
       ELSE IF ~DictHas(catalog, <<"assets">>)
       THEN pc' = "fault" /\ fault' = Raise("KeyError", 99) /\ idx' = idx
       ELSE pc' = "loop" /\ idx' = 1 /\ fault' = fault
    /\ UNCHANGED <<fs, catalog, stdout>>

(* A loop that moves on only after a rewrite. *)
LoopStep_stalls ==
    /\ pc = "loop"
    /\ idx <= Len(assets)
    /\ \E r \in {UpdateAsset(assets[idx])} :
       IF r.fault # NoFault
       THEN /\ pc' = "fault"
            /\ fault' = r.fault
            /\ UNCHANGED <<catalog, idx, stdout>>
       ELSE /\ catalog' = DictSet(catalog, <<"assets">>,
                                  PyList([assets EXCEPT ![idx] = r.asset]))
            /\ stdout' = stdout \o r.out
            /\ idx' = IF r.out = <<>> THEN idx ELSE idx + 1
            /\ UNCHANGED <<pc, fault>>
    /\ UNCHANGED fs

(* lines 99-111: one iteration of the loop on the next asset *)
LoopStep ==
    /\ pc = "loop"
    /\ idx <= Len(assets)
    /\ \E r \in {UpdateAsset(assets[idx])} :
       IF r.fault # NoFault
       THEN /\ pc' = "fault"
            /\ fault' = r.fault
            /\ UNCHANGED <<catalog, idx, stdout>>
       ELSE /\ catalog' = DictSet(catalog, <<"assets">>,
                                  PyList([assets EXCEPT ![idx] = r.asset]))
            /\ stdout' = stdout \o r.out
            /\ idx' = idx + 1
            /\ UNCHANGED <<pc, fault>>
    /\ UNCHANGED fs

(* The loop followed at once by the messages, the save left out. *)
LoopExit_skips_save ==
    /\ pc = "loop"
    /\ idx > Len(assets)
    /\ pc' = "print"
    /\ UNCHANGED <<fs, catalog, idx, stdout, fault>>

(* line 99: the iterator is exhausted *)
LoopExit ==
    /\ pc = "loop"
    /\ idx > Len(assets)
    /\ pc' = "open"
    /\ UNCHANGED <<fs, catalog, idx, stdout, fault>>

(* line 115: open(output_path, 'w') creates or truncates the file *)
OpenOk ==
    /\ pc = "open"
    /\ fs' = [fs EXCEPT ![output_path] = File(<<>>)]
    /\ pc' = "dump"
    /\ UNCHANGED <<catalog, idx, stdout, fault>>

(* line 115: the output cannot be opened (no directory, no permission) *)
OpenFail ==
    /\ pc = "open"
    /\ pc' = "fault"
    /\ fault' = Raise("OSError", 115)
    /\ UNCHANGED <<fs, catalog, idx, stdout>>

(* line 116: json.dump writes the whole text; the with block closes f *)
DumpOk ==
    /\ pc = "dump"
    /\ fs' = [fs EXCEPT ![output_path] = File(Dump(catalog))]
    /\ pc' = "print"
    /\ UNCHANGED <<catalog, idx, stdout, fault>>

(* line 116: a write fails (disk full), leaving a proper prefix of the text *)
DumpFail ==
    /\ pc = "dump"
    /\ \E n \in 0..MaxPartial :
         /\ n < Len(Dump(catalog))
         /\ fs' = [fs EXCEPT ![output_path] = File(SubSeq(Dump(catalog), 1, n))]
    /\ pc' = "fault"
    /\ fault' = Raise("OSError", 116)
    /\ UNCHANGED <<catalog, idx, stdout>>

(* lines 118-121: the saved message and the apply instructions *)
PrintInstructions ==
    /\ pc = "print"
    /\ stdout' = stdout \o
         << Line("saved", output_path, <<>>, ""),
            Line("apply", <<>>, <<>>, ""),
            Line("cp", catalog_path, catalog_path, ".backup"),
            Line("cp", output_path, catalog_path, "") >>
    /\ pc' = "done"
    /\ UNCHANGED <<fs, catalog, idx, fault>>

Next ==
    \/ LoadMissing
    \/ LoadMalformed
    \/ LoadOk
    \/ ForAssets
    \/ LoopStep
    \/ LoopExit
    \/ OpenOk
    \/ OpenFail
    \/ DumpOk
    \/ DumpFail
    \/ PrintInstructions

Spec == Init /\ [][Next]_vars

(* The interpreter runs the script to its end or to an uncaught fault: a
   step that can be taken is taken. *)
FairSpec == FairInit /\ [][Next]_vars /\ WF_vars(Next)

----------------------------------------------------------------------------
(* Vocabulary of the properties.  Formulas bind the parsed files once
   (\A src \in {inAssets} : ...) and speak about the bound value. *)

(* The catalog in the input file and its assets list. *)
input == Load(fs[catalog_path].toks).v
inAssets == DictGet(input, <<"assets">>).e

(* The catalog in the output file and its assets list. *)
output == Load(fs[output_path].toks).v
outAssets == DictGet(output, <<"assets">>).e

(* The write has completed. *)
Written == pc \in {"print", "done"}

(* The loop is over and no fault was raised. *)
AfterLoop == pc \in {"open", "dump", "print", "done"}

(* The catalog is loaded and holds an assets list. *)
HasList == catalog.t = "dict" /\ DictHas(catalog, <<"assets">>)

(* The trailing identifier segment of an asset with a string id. *)
Trailing(asset) == Last(DictGet(asset, <<"id">>).s)

IsModel(asset) ==
    DictHas(asset, <<"type">>) /\ DictGet(asset, <<"type">>) = PyStr(<<"model">>)

HasStrId(asset) == DictHas(asset, <<"id">>) /\ DictGet(asset, <<"id">>).t = "str"

(* A model asset whose trailing identifier segment is a key of the table. *)
Matched(asset) ==
    IsModel(asset) /\ HasStrId(asset) /\ Trailing(asset) \in DOMAIN renames

MatchedIn(list) == {j \in DOMAIN list : Matched(list[j])}

Keys(d) == {d.e[j].k : j \in DOMAIN d.e}

KeySeq(d) == [j \in DOMAIN d.e |-> d.e[j].k]

FourFields == {<<"id">>, <<"label">>, <<"description">>, <<"tags">>}

IsInstruction(line) == line.k \in {"saved", "apply", "cp"}

Progress == {j \in DOMAIN stdout : stdout[j].k = "progress"}
Instructions == {j \in DOMAIN stdout : IsInstruction(stdout[j])}

NewNames == {renames[k].name : k \in DOMAIN renames}

(* The update of a whole list, asset by asset. *)
UpdateAll(list) == [j \in DOMAIN list |-> UpdateAsset(list[j]).asset]

----------------------------------------------------------------------------
(* C1: every model asset of the input whose trailing identifier segment is
   a key of the rename table has, at the same position of the output
   catalog, the id "downloads-pack/<name>" and the label, description and
   tags of that table entry, whatever prefix its old id had. *)
C1_MatchedRewritten ==
    Written =>
      /\ Load(fs[output_path].toks).ok
      /\ \A src \in {inAssets}, dst \in {outAssets} :
           /\ Len(dst) = Len(src)
           /\ \A j \in DOMAIN src :
                Matched(src[j]) =>
                  \A e \in {renames[Trailing(src[j])]} :
                    /\ FourFields \subseteq Keys(dst[j])
                    /\ DictGet(dst[j], <<"id">>).t = "str"
                    /\ DictGet(dst[j], <<"id">>).s = <<"downloads-pack", e.name>>
                    /\ DictGet(dst[j], <<"label">>) = PyStr(<<e.label>>)
                    /\ DictGet(dst[j], <<"description">>) = PyStr(<<e.description>>)
                    /\ DictGet(dst[j], <<"tags">>).t = "list"
                    /\ Len(DictGet(dst[j], <<"tags">>).e) = Len(e.tags)
                    /\ \A n \in DOMAIN e.tags :
                         DictGet(dst[j], <<"tags">>).e[n] = PyStr(<<e.tags[n]>>)

(* A run that wrote its output for a matched asset whose old id had a
   prefix other than the pack's, next to one without any prefix. *)
C1_Witness ==
    /\ Written
    /\ \E src \in {inAssets} :
         /\ \E j \in DOMAIN src :
              Matched(src[j]) /\ Len(DictGet(src[j], <<"id">>).s) > 2
         /\ \E j \in DOMAIN src :
              Matched(src[j]) /\ Len(DictGet(src[j], <<"id">>).s) = 1

(* C2: every asset whose type is not "model", even with a trailing segment
   that is a key, and every model asset whose trailing segment is no key,
   is in the output catalog exactly as in the input catalog. *)
C2_OthersUnchanged ==
    Written =>
      \A src \in {inAssets}, dst \in {outAssets} :
        /\ Len(dst) = Len(src)
        /\ \A j \in DOMAIN src : ~Matched(src[j]) => dst[j] = src[j]

(* A run that wrote its output for a non-model asset whose trailing segment
   is a key, next to a model asset whose trailing segment is no key. *)
C2_Witness ==
    /\ Written
    /\ \E src \in {inAssets} :
         /\ \E j \in DOMAIN src :
              /\ ~IsModel(src[j])
              /\ HasStrId(src[j])
              /\ Trailing(src[j]) \in DOMAIN renames
         /\ \E j \in DOMAIN src : IsModel(src[j]) /\ ~Matched(src[j])

(* C3: after a run that completes without fault the output file is valid
   JSON, and parsing it back yields the catalog the script held after the
   update loop. *)
C3_ValidRoundTrip ==
    pc = "done" =>
      /\ ValidJSON(fs[output_path].toks)
      /\ output = catalog

(* C4: the table is applied to matching entries once.  Every iteration
   advances to the next asset and touches no other asset, never changes the
   length of the list, and prints a progress line exactly when it rewrites;
   after the loop the list is the update of the input list, and since no
   new name of the table is a key, updating it again changes nothing and
   prints nothing (the update is idempotent). *)
C4_AppliedOnce ==
    /\ [](/\ NewNames \cap DOMAIN renames = {}
          /\ AfterLoop =>
               \A cur \in {assets} :
                 /\ cur = UpdateAll(inAssets)
                 /\ UpdateAll(cur) = cur
                 /\ \A j \in DOMAIN cur :
                      UpdateAsset(cur[j]) = Outcome(NoFault, cur[j], <<>>))
    /\ [][(pc = "loop" /\ pc' = "loop") =>
            \A src \in {inAssets}, cur \in {assets}, new \in {assets'} :
              /\ idx' = idx + 1
              /\ Len(new) = Len(cur)
              /\ \A j \in DOMAIN cur : j # idx => new[j] = cur[j]
              /\ Matched(src[idx]) <=> new[idx] # cur[idx]
              /\ Matched(src[idx]) <=> Len(stdout') = Len(stdout) + 1]_vars

(* The loop is over for a list with two matched assets. *)
C4_Witness ==
    /\ AfterLoop
    /\ Cardinality(MatchedIn(inAssets)) > 1

(* C5: a missing input file, malformed input and a write failure each end
   the run with an uncaught fault, and nothing runs after a fault.  Until
   the loop is over no file is touched, so a fault while loading or while
   processing assets leaves the output file as it was and prints neither
   the saved message nor the apply instructions. *)
C5_FaultsTerminate ==
    /\ []((pc = "fault" /\ fault.line < 115) => Instructions = {})
    /\ [][/\ pc # "fault"
          /\ (pc = "load" /\ ~fs[catalog_path].exists) =>
               pc' = "fault" /\ fault'.exc = "FileNotFoundError"
          /\ (pc = "load" /\ fs[catalog_path].exists
                /\ ~Load(fs[catalog_path].toks).ok) =>
               pc' = "fault" /\ fault'.exc = "JSONDecodeError"
          /\ pc \in {"load", "for", "loop"} => fs' = fs
          /\ (pc' = "fault" /\ fault'.line < 115) => pc \in {"load", "for", "loop"}
          /\ (pc' = "fault" /\ fault'.line >= 115) => pc \in {"open", "dump"}]_vars

(* The run ended on an asset without id, after a progress line was printed
   for an earlier asset; the output file of an earlier run is still there. *)
C5_Witness ==
    /\ pc = "fault"
    /\ fault = Raise("KeyError", 101)
    /\ Progress # {}
    /\ fs[output_path].exists

(* C6: the script never writes to the input catalog file.  The output path
   differs from the input path, every step leaves every file other than the
   one at the output path as it was, and applying the result is left to the
   two copy commands printed at the end. *)
C6_InputNeverWritten ==
    /\ [](/\ output_path # catalog_path
          /\ pc = "done" =>
               /\ \E j \in DOMAIN stdout :
                    stdout[j] = Line("cp", catalog_path, catalog_path, ".backup")
               /\ \E j \in DOMAIN stdout :
                    stdout[j] = Line("cp", output_path, catalog_path, ""))
    /\ [][/\ DOMAIN fs' = DOMAIN fs
          /\ \A p \in DOMAIN fs : fs'[p] # fs[p] => p = output_path
          /\ fs'[catalog_path] = fs[catalog_path]]_vars

(* The run is over, the output file holds a rewritten catalog and the
   input file still holds the original one. *)
C6_Witness ==
    /\ pc = "done"
    /\ fs[output_path].exists
    /\ output # input
    /\ MatchedIn(inAssets) # {}

Rank(p) ==
    CASE p = "load" -> 1
      [] p = "for" -> 2
      [] p = "loop" -> 3
      [] p = "open" -> 4
      [] p = "dump" -> 5
      [] p = "print" -> 6
      [] p = "done" -> 7
      [] OTHER -> 0

(* C7: the run is a linear sequence of phases: read, update, write, print.
   A step either repeats the loop, moves to the next phase or faults.  The
   output file changes only in the write phase, which starts after the
   catalog is loaded and every asset is processed; progress lines are
   printed only in the loop; the saved message and the instructions are
   there only at the end, when the output file holds the whole text. *)
C7_LinearPhases ==
    /\ [](/\ AfterLoop => HasList /\ idx = Len(assets) + 1 /\ fault = NoFault
          /\ pc \in {"print", "done"} => fs[output_path] = File(Dump(catalog))
          /\ Instructions # {} => pc = "done"
          /\ pc \in {"load", "for"} => stdout = <<>>)
    /\ [][/\ pc' # "fault" =>
               \/ Rank(pc') = Rank(pc) + 1
               \/ pc = "loop" /\ pc' = "loop"
          /\ fs'[output_path] # fs[output_path] => pc \in {"open", "dump"}
          /\ stdout' # stdout =>
               \/ pc = "loop" /\ Len(stdout') = Len(stdout) + 1
                    /\ stdout'[Len(stdout')].k = "progress"
               \/ pc = "print" /\ pc' = "done"
          /\ catalog' # catalog => pc \in {"load", "loop"}]_vars

(* The run is over after two assets, with a progress line printed. *)
C7_Witness ==
    /\ pc = "done"
    /\ Progress # {}
    /\ Len(inAssets) > 1

(* C8: the output has the structure of the input.  The top-level keys are
   the same in the same order and every one but the assets list has its
   input value; the assets list has the same length and order (each
   position holds the asset of that input position, under its old or its
   new id); position by position an asset keeps its keys (a matched one gains those of the four fields it
   lacked), and every field of it other than id, label, description and
   tags keeps its input value. *)
C8_SameStructure ==
    Written =>
      \A cin \in {input}, cout \in {output} :
        /\ cout.t = "dict"
        /\ KeySeq(cout) = KeySeq(cin)
        /\ \A j \in DOMAIN cin.e :
             cin.e[j].k # <<"assets">> => cout.e[j] = cin.e[j]
        /\ DictGet(cout, <<"assets">>).t = "list"
        /\ \A src \in {DictGet(cin, <<"assets">>).e},
              dst \in {DictGet(cout, <<"assets">>).e} :
             /\ Len(dst) = Len(src)
             /\ \A j \in DOMAIN src :
                  /\ Keys(dst[j]) =
                       Keys(src[j]) \cup (IF Matched(src[j]) THEN FourFields ELSE {})
                  /\ SubSeq(KeySeq(dst[j]), 1, Len(src[j].e)) = KeySeq(src[j])
                  /\ DictHas(src[j], <<"id">>) =>
                       DictGet(dst[j], <<"id">>) =
                         IF Matched(src[j])
                         THEN PyStr(<<"downloads-pack",
                                      renames[Trailing(src[j])].name>>)
                         ELSE DictGet(src[j], <<"id">>)
                  /\ \A k \in Keys(src[j]) \ FourFields :
                       DictGet(dst[j], k) = DictGet(src[j], k)

(* A catalog with a further top-level key was written, one of its assets
   matched and carrying a field beyond the four. *)
C8_Witness ==
    /\ Written
    /\ DictHas(input, <<"unitScale">>)
    /\ \E src \in {inAssets} :
         \E j \in DOMAIN src : Matched(src[j]) /\ DictHas(src[j], <<"path">>)

(* The input file holds a catalog whose assets all carry id and type. *)
CarriesIdAndType ==
    \E r \in {Load(fs[catalog_path].toks)} :
      /\ r.ok
      /\ r.v.t = "dict"
      /\ DictHas(r.v, <<"assets">>)
      /\ \A src \in {DictGet(r.v, <<"assets">>).e} :
           \A j \in DOMAIN src :
             DictHas(src[j], <<"id">>) /\ DictHas(src[j], <<"type">>)

(* ... and every id is a string. *)
CarriesStrIdAndType ==
    /\ CarriesIdAndType
    /\ \A src \in {inAssets} : \A j \in DOMAIN src : HasStrId(src[j])

(* C9 as stated: for every input catalog whose assets all carry id and
   type the script reaches its end, that is, the run never ends in a
   fault. *)
C9_AlwaysReachesEnd == CarriesIdAndType => pc # "fault"

(* C9, amended: for every input catalog whose assets all carry a type and
   a string id the run terminates.  The loop performs one iteration per
   asset and never changes the length of the list; the only faults left are
   those of opening and writing the output file; otherwise the script
   reaches its end after writing the output and printing the instructions,
   and the number of progress lines equals the number of matched assets. *)
C9_Terminates ==
    /\ [](CarriesStrIdAndType =>
            \A src \in {inAssets} :
              /\ pc = "fault" => fault.line \in {115, 116}
              /\ pc = "loop" =>
                   /\ Len(assets) = Len(src)
                   /\ idx \in 1..(Len(src) + 1)
                   /\ Cardinality(Progress)
                        = Cardinality({j \in MatchedIn(src) : j < idx})
              /\ AfterLoop =>
                   /\ Len(assets) = Len(src)
                   /\ idx = Len(src) + 1
                   /\ Cardinality(Progress) = Cardinality(MatchedIn(src))
              /\ pc = "done" =>
                   /\ fs[output_path] = File(Dump(catalog))
                   /\ Cardinality(Instructions) = 4)
    /\ (CarriesStrIdAndType ~>
          (pc = "done" \/ (pc = "fault" /\ fault.line \in {115, 116})))

(* The run reached its end for two assets, one matched and one not. *)
C9_Witness ==
    /\ pc = "done"
    /\ CarriesStrIdAndType
    /\ Len(inAssets) > 1
    /\ Cardinality(Progress) = 1

(* The ids of a list are pairwise distinct strings "downloads-pack/<segment>",
   none of them a target id of the table. *)
FreshPackIds(list) ==
    /\ \A j \in DOMAIN list :
         /\ HasStrId(list[j])
         /\ Len(DictGet(list[j], <<"id">>).s) = 2
         /\ Head(DictGet(list[j], <<"id">>).s) = "downloads-pack"
         /\ Trailing(list[j]) \notin NewNames
    /\ \A i, j \in DOMAIN list :
         i # j => DictGet(list[i], <<"id">>) # DictGet(list[j], <<"id">>)

(* C10: identifier uniqueness is preserved.  The table maps distinct keys
   to distinct new names, and when the input ids are pairwise distinct, of
   the form "downloads-pack/<segment>" and none a target id, the ids of the
   output assets are pairwise distinct. *)
C10_UniqueIds ==
    /\ \A k1, k2 \in DOMAIN renames :
         k1 # k2 => renames[k1].name # renames[k2].name
    /\ Written =>
         \A src \in {inAssets}, dst \in {outAssets} :
           FreshPackIds(src) =>
             \A i, j \in DOMAIN dst :
               i # j => DictGet(dst[i], <<"id">>) # DictGet(dst[j], <<"id">>)

(* Two matched assets with distinct pack ids were written. *)
C10_Witness ==
    /\ Written
    /\ \E src \in {inAssets} :
         FreshPackIds(src) /\ Cardinality(MatchedIn(src)) > 1

====
